---------------------------- MODULE Spec2Model ----------------------------
(***************************************************************************)
(* Real-time edge detection viewer: the pipeline driver                    *)
(* (EdgeDetectionApp, src/src/app.ts) and the accelerated backend          *)
(* (OpenCVProcessor, src/dist/webgl-renderer.d.ts lines 52-252).           *)
(*                                                                         *)
(* Every browser task (a click, a slider input, an animation frame, the    *)
(* settling of getUserMedia, loadedmetadata, the native runtime finishing) *)
(* is one action: JavaScript runs a task and the microtasks it queues to   *)
(* completion before the next task starts.                                 *)
(***************************************************************************)
EXTENDS Integers, Sequences, FiniteSets, TLC

VARIABLES
    app,        \* "none" (DOMContentLoaded not yet run), "running", "failed"
    config,     \* EdgeDetectionApp.config
    state,      \* EdgeDetectionApp.state, with the callbacks and streams it refers to
    ui,         \* the buttons' disabled flags and the two status texts
    proc,       \* OpenCVProcessor fields and the promise initialize() returned
    env,        \* the page's environment: window.cv and the native runtime
    fpsCounter, \* EdgeDetectionApp.fpsCounter: frameCount and currentFPS
    last        \* what the task that ran last did (calls made, errors, alerts)

vars == <<app, config, state, ui, proc, env, fpsCounter, last>>

-----------------------------------------------------------------------------
(* Bounds of the model *)

\* slider positions of the threshold control that are explored: 0..MaxThreshold
MaxThreshold == 0
\* slider positions of the blur control that are explored: 0..MaxBlur
MaxBlur == 1
\* getUserMedia requests that may be outstanding at once
MaxRequests == 1
\* animation-frame callbacks that may be outstanding at once
MaxCallbacks == 2
\* timers of captureScreenshot that may be outstanding at once
MaxTimers == 1
\* widths and heights of the images handed to an operation: 1..MaxDim
MaxDim == 2
\* pixels in the rows handed to both backends
RowLen == 4
\* frames that may be counted before the counter is reset
MaxFrames == 2
\* milliseconds since fpsCounter.lastTime at a frame that comes late
SlowFrame == 2500

(* Program constants *)
DefaultThreshold == 40
DefaultBlur == 1
SobelDefaultKsize == 3
LaplacianDefaultKsize == 3
\* milliseconds after which updateFPS publishes the rate and starts over
FpsInterval == 1000

Methods == {"sobel", "canny", "roberts", "prewitt", "laplacian", "grayscale"}
Modes == {"opencv", "typescript"}
ThresholdValues == (0..MaxThreshold) \cup {DefaultThreshold}
BlurValues == (0..MaxBlur) \cup {DefaultBlur}

-----------------------------------------------------------------------------
(* OpenCVProcessor: each operation is the list of native steps it runs.    *)
(* A step is [fn, mat]: the cv function called and the Mat it creates,     *)
(* writes or deletes.                                                      *)

St(fn, mat) == [fn |-> fn, mat |-> mat]

cannySteps ==
    << St("matFromImageData", "src"),
       St("new Mat", "gray"),
       St("cvtColor RGBA2GRAY", "gray"),
       St("new Mat", "edges"),
       St("Canny", "edges"),
       St("new Mat", "result"),
       St("cvtColor GRAY2RGBA", "result"),
       St("new ImageData", "result"),
       St("delete", "src"),
       St("delete", "gray"),
       St("delete", "edges"),
       St("delete", "result") >>

grayscaleSteps ==
    << St("matFromImageData", "src"),
       St("new Mat", "gray"),
       St("cvtColor RGBA2GRAY", "gray"),
       St("new Mat", "result"),
       St("cvtColor GRAY2RGBA", "result"),
       St("new ImageData", "result"),
       St("delete", "src"),
       St("delete", "gray"),
       St("delete", "result") >>

\* The mutant of sobelSteps combines the gradients by their Euclidean norm.
sobelStepsEuclidean ==
    << St("matFromImageData", "src"),
       St("new Mat", "gray"), St("cvtColor RGBA2GRAY", "gray"),
       St("new Mat", "blurred"), St("GaussianBlur 3x3", "blurred"),
       St("new Mat", "gradX"), St("new Mat", "gradY"),
       St("Sobel dx", "gradX"), St("Sobel dy", "gradY"),
       St("new Mat", "absGradX"), St("new Mat", "absGradY"),
       St("convertScaleAbs", "absGradX"), St("convertScaleAbs", "absGradY"),
       St("new Mat", "edges"), St("magnitude", "edges"),
       St("new Mat", "result"), St("cvtColor GRAY2RGBA", "result"),
       St("new ImageData", "result"),
       St("delete", "src"), St("delete", "gray"), St("delete", "blurred"),
       St("delete", "gradX"), St("delete", "gradY"),
       St("delete", "absGradX"), St("delete", "absGradY"),
       St("delete", "edges"), St("delete", "result") >>

sobelSteps ==
    << St("matFromImageData", "src"),
       St("new Mat", "gray"),
       St("cvtColor RGBA2GRAY", "gray"),
       St("new Mat", "blurred"),
       St("GaussianBlur 3x3", "blurred"),
       St("new Mat", "gradX"),
       St("new Mat", "gradY"),
       St("Sobel dx", "gradX"),
       St("Sobel dy", "gradY"),
       St("new Mat", "absGradX"),
       St("new Mat", "absGradY"),
       St("convertScaleAbs", "absGradX"),
       St("convertScaleAbs", "absGradY"),
       St("new Mat", "edges"),
       St("addWeighted 0.5 0.5", "edges"),
       St("new Mat", "result"),
       St("cvtColor GRAY2RGBA", "result"),
       St("new ImageData", "result"),
       St("delete", "src"),
       St("delete", "gray"),
       St("delete", "blurred"),
       St("delete", "gradX"),
       St("delete", "gradY"),
       St("delete", "absGradX"),
       St("delete", "absGradY"),
       St("delete", "edges"),
       St("delete", "result") >>

gaussianBlurSteps ==
    << St("matFromImageData", "src"),
       St("new Mat", "blurred"),
       St("GaussianBlur ksize", "blurred"),
       St("new ImageData", "blurred"),
       St("delete", "src"),
       St("delete", "blurred") >>

\* The mutant of laplacianSteps does not delete absLaplacian.
laplacianStepsLeaky ==
    << St("matFromImageData", "src"),
       St("new Mat", "gray"), St("cvtColor RGBA2GRAY", "gray"),
       St("new Mat", "blurred"), St("GaussianBlur 3x3", "blurred"),
       St("new Mat", "laplacian"), St("Laplacian", "laplacian"),
       St("new Mat", "absLaplacian"), St("convertScaleAbs", "absLaplacian"),
       St("new Mat", "result"), St("cvtColor GRAY2RGBA", "result"),
       St("new ImageData", "result"),
       St("delete", "src"), St("delete", "gray"), St("delete", "blurred"),
       St("delete", "laplacian"), St("delete", "result") >>

laplacianSteps ==
    << St("matFromImageData", "src"),
       St("new Mat", "gray"),
       St("cvtColor RGBA2GRAY", "gray"),
       St("new Mat", "blurred"),
       St("GaussianBlur 3x3", "blurred"),
       St("new Mat", "laplacian"),
       St("Laplacian", "laplacian"),
       St("new Mat", "absLaplacian"),
       St("convertScaleAbs", "absLaplacian"),
       St("new Mat", "result"),
       St("cvtColor GRAY2RGBA", "result"),
       St("new ImageData", "result"),
       St("delete", "src"),
       St("delete", "gray"),
       St("delete", "blurred"),
       St("delete", "laplacian"),
       St("delete", "absLaplacian"),
       St("delete", "result") >>

CvOps == {"canny", "grayscale", "sobel", "gaussianBlur", "laplacian"}

StepsOf(op) ==
    CASE op = "canny" -> cannySteps
      [] op = "grayscale" -> grayscaleSteps
      [] op = "sobel" -> sobelSteps
      [] op = "gaussianBlur" -> gaussianBlurSteps
      [] op = "laplacian" -> laplacianSteps

\* the longest operation, in steps
MaxSteps == Len(sobelSteps)

NoError == "none"
NotInitialized == "OpenCV not initialized"
NativeError == "native exception"

\* OpenCVProcessor.ready().  The mutant answers from the library handle.
readyByCv(p) == p.cv # "null"

ready(p) == p.isReady

\* The guard every operation starts with: if (!this.isReady) throw ...
\* The mutant omits the guard.
NoGuard(p) == FALSE

guardThrows(p) == ~p.isReady

InvalidThresholds == "InvalidThresholds"

\* The native steps that run when step failAt throws (all of them when
\* none does).
ranSteps(all, failAt) ==
    SubSeq(all, 1, IF failAt \in 1..Len(all) THEN failAt ELSE Len(all))

\* The sizes of the Mats of an operation.  A Mat is [rows, cols];
\* matFromImageData makes one of the image's height and width, new cv.Mat()
\* an empty one, and each native function gives the Mat it writes the size
\* of the Mat it reads.
SourceOf(op, mat) ==
    CASE mat = "gray" -> "src"
      [] mat = "blurred" -> IF op = "gaussianBlur" THEN "src" ELSE "gray"
      [] mat \in {"gradX", "gradY", "laplacian"} -> "blurred"
      [] mat = "absGradX" -> "gradX"
      [] mat = "absGradY" -> "gradY"
      [] mat = "absLaplacian" -> "laplacian"
      [] mat = "edges" -> IF op = "canny" THEN "gray" ELSE "absGradX"
      [] mat = "result" ->
            CASE op = "canny" -> "edges"
              [] op = "grayscale" -> "gray"
              [] op = "sobel" -> "edges"
              [] op = "laplacian" -> "absLaplacian"

EmptyMat == [rows |-> 0, cols |-> 0]

\* the Mats after one more step
afterStep(op, s, image, mats) ==
    CASE s.fn = "matFromImageData" ->
            (s.mat :> [rows |-> image.height, cols |-> image.width]) @@ mats
      [] s.fn = "new Mat" -> (s.mat :> EmptyMat) @@ mats
      [] s.fn \in {"new ImageData", "delete"} -> mats
      [] OTHER -> (s.mat :> mats[SourceOf(op, s.mat)]) @@ mats

RECURSIVE matsAfter(_, _, _, _, _)
\* the Mats after steps i..Len(steps), starting from mats
matsAfter(op, steps, i, image, mats) ==
    IF i > Len(steps) THEN mats
    ELSE matsAfter(op, steps, i + 1, image, afterStep(op, steps[i], image, mats))

\* new ImageData(new Uint8ClampedArray(m.data), m.cols, m.rows).  The mutant
\* passes the rows for the width.
imageDataTransposed(m) == [width |-> m.rows, height |-> m.cols]

imageDataOf(m) == [width |-> m.cols, height |-> m.rows]

NoImage == [width |-> 0, height |-> 0]

\* the Mat an operation builds its result from
ResultMat(op) == IF op = "gaussianBlur" THEN "blurred" ELSE "result"

\* What a call of an operation on image returns (NoImage when it throws).
returned(p, op, failAt, image) ==
    IF guardThrows(p) \/ failAt \in 1..Len(StepsOf(op)) THEN NoImage
    ELSE imageDataOf(matsAfter(op, StepsOf(op), 1, image, << >>)[ResultMat(op)])

\* The mutant of CvCall validates the thresholds of canny.
CvCallValidating(p, op, args, failAt) ==
    [target |-> "OpenCVProcessor", op |-> op, args |-> args,
     err |-> IF guardThrows(p) THEN NotInitialized
             ELSE IF op = "canny" /\ args[2] <= args[1] THEN InvalidThresholds
             ELSE IF failAt \in 1..Len(StepsOf(op)) THEN NativeError
             ELSE NoError,
     steps |-> IF guardThrows(p) \/ (op = "canny" /\ args[2] <= args[1])
               THEN << >>
               ELSE ranSteps(StepsOf(op), failAt)]

\* One call of an OpenCVProcessor operation on processor p.  failAt is the
\* native step that throws (0: none does).  The result is the call as the
\* caller sees it: the error thrown (or none) and the native steps that ran.
CvCall(p, op, args, failAt) ==
    [target |-> "OpenCVProcessor", op |-> op, args |-> args,
     err |-> IF guardThrows(p) THEN NotInitialized
             ELSE IF failAt \in 1..Len(StepsOf(op)) THEN NativeError
             ELSE NoError,
     steps |-> IF guardThrows(p) THEN << >> ELSE ranSteps(StepsOf(op), failAt)]

\* OpenCVProcessor.initialize() up to the point where its promise is created:
\* with window.cv defined it keeps the library and registers
\* onRuntimeInitialized (the promise stays pending until that callback runs);
\* otherwise the promise is rejected at once.
\* The mutant of initialize marks the processor ready at once when the runtime
\* has already finished loading.
initializeReadyIfLoaded(p, e) ==
    IF e.windowCv
    THEN [proc |-> [p EXCEPT !.cv = "window.cv",
                             !.isReady = (e.runtime = "initialized"),
                             !.promise = IF e.runtime = "initialized"
                                         THEN "resolved" ELSE "pending"],
          env  |-> [e EXCEPT !.handler = TRUE]]
    ELSE [proc |-> [p EXCEPT !.promise = "rejected"],
          env  |-> e]

initialize(p, e) ==
    IF e.windowCv
    THEN [proc |-> [p EXCEPT !.cv = "window.cv", !.promise = "pending"],
          env  |-> [e EXCEPT !.handler = TRUE]]
    ELSE [proc |-> [p EXCEPT !.promise = "rejected"],
          env  |-> e]

\* new OpenCVProcessor()
NewProcessor == [isReady |-> FALSE, cv |-> "null", promise |-> "none"]
\* before the constructor of the application has run there is no processor
NoProcessor == [isReady |-> FALSE, cv |-> "null", promise |-> "absent"]

-----------------------------------------------------------------------------
(* Collaborators of the driver that are not part of the OpenCV wrapper.    *)

\* A call of the pure TypeScript EdgeDetector (edge-detection.ts); fails says
\* whether this call throws.
EdgeDetectorCall(op, args, fails) ==
    [target |-> "EdgeDetector", op |-> op, args |-> args,
     err |-> IF fails THEN "EdgeDetector error" ELSE NoError, steps |-> << >>]

\* inputCtx.drawImage + inputCtx.getImageData
CaptureCall(fails) ==
    [target |-> "inputCtx", op |-> "getImageData", args |-> << >>,
     err |-> IF fails THEN "canvas error" ELSE NoError, steps |-> << >>]

\* WebGLRenderer.render(result)
RenderCall(fails) ==
    [target |-> "webglRenderer", op |-> "render", args |-> << >>,
     err |-> IF fails THEN "WebGL error" ELSE NoError, steps |-> << >>]

-----------------------------------------------------------------------------
(* EdgeDetectionApp.processFrame: the body of its try block.               *)

\* The test that selects the accelerated branch.  The mutant forgets ready().
ModeOnly(c, p) == c.mode = "opencv"

useOpenCV(c, p) == c.mode = "opencv" /\ ready(p)

\* native step at which a faulted OpenCVProcessor call of a frame throws
\* (1: matFromImageData, on the buffer the driver hands over)
FrameFailStep == 1

\* The calls the accelerated branch plans, in order, after the capture.
\* fault is the position (in the whole frame) of the call that throws, 0 for none;
\* n is the number of calls planned before these.
RobertsAsSobel(c, p, fault, n) ==
    << CvCall(p, "sobel", <<SobelDefaultKsize>>,
              IF fault = n + 1 THEN FrameFailStep ELSE 0) >>

referenceFallback(c, p, fault, n) ==
    IF c.blurAmount > 0
    THEN << EdgeDetectorCall("gaussianBlur", <<c.blurAmount>>, fault = n + 1),
            EdgeDetectorCall(c.method, <<c.threshold>>, fault = n + 2) >>
    ELSE << EdgeDetectorCall(c.method, <<c.threshold>>, fault = n + 1) >>

\* The thresholds the driver passes to OpenCVProcessor.canny
cannyArgs(c) == << c.threshold, c.threshold * 2 >>

\* The OpenCVProcessor operation the switch of the accelerated branch calls
\* for a method other than roberts and prewitt (default: sobel)
opencvOperatorName(c) ==
    IF c.method \in {"sobel", "canny", "laplacian", "grayscale"}
    THEN c.method
    ELSE "sobel"

\* and the arguments it passes after imageData
opencvOperatorArgs(c) ==
    CASE c.method = "canny" -> cannyArgs(c)
      [] c.method = "laplacian" -> <<LaplacianDefaultKsize>>
      [] c.method = "grayscale" -> << >>
      [] OTHER -> <<SobelDefaultKsize>>

opencvOperator(c, p, fault, n) ==
    IF c.method \in {"roberts", "prewitt"}
    THEN referenceFallback(c, p, fault, n)
    ELSE << CvCall(p, opencvOperatorName(c), opencvOperatorArgs(c),
                   IF fault = n + 1 THEN FrameFailStep ELSE 0) >>

\* number of calls the blur step of a branch makes
blurCalls(c) == IF c.blurAmount > 0 THEN 1 ELSE 0

\* The kernel size handed to opencvProcessor.gaussianBlur.  The mutant hands
\* over the blur amount itself, as the TypeScript branch does.
ksizeAsBlurAmount(c) == c.blurAmount

ksize(c) == c.blurAmount * 2 + 1

opencvBranch(c, p, fault, n) ==
    (IF c.blurAmount > 0
     THEN << CvCall(p, "gaussianBlur", <<ksize(c)>>,
                    IF fault = n + 1 THEN FrameFailStep ELSE 0) >>
     ELSE << >>)
    \o opencvOperator(c, p, fault, n + blurCalls(c))

\* The operator the TypeScript branch applies: 'grayscale' and anything
\* unknown are replaced by sobel.  The mutant passes the method through.
methodItself(c) == c.method

typescriptOperatorName(c) ==
    IF c.method \in {"sobel", "canny", "roberts", "prewitt", "laplacian"}
    THEN c.method
    ELSE "sobel"

typescriptBranch(c, p, fault, n) ==
    (IF c.blurAmount > 0
     THEN << EdgeDetectorCall("gaussianBlur", <<c.blurAmount>>, fault = n + 1) >>
     ELSE << >>)
    \o << EdgeDetectorCall(typescriptOperatorName(c), <<c.threshold>>,
                           fault = n + blurCalls(c) + 1) >>

\* capture, the calls of the branch taken, render
aroundBranch(process, fault) ==
    << CaptureCall(fault = 1) >> \o process
        \o << RenderCall(fault = Len(process) + 2) >>

\* Everything the try block would call if nothing threw.
plannedCalls(c, p, fault) ==
    aroundBranch(IF useOpenCV(c, p)
                 THEN opencvBranch(c, p, fault, 1)
                 ELSE typescriptBranch(c, p, fault, 1),
                 fault)

\* position of the first planned call that throws, 0 if none does
firstError(calls) ==
    LET bad == { i \in 1..Len(calls) : calls[i].err # NoError }
    IN IF bad = {} THEN 0
       ELSE CHOOSE i \in bad : \A j \in bad : i <= j

\* the planned calls up to and including the first that throws
untilError(plan) ==
    IF firstError(plan) = 0 THEN plan ELSE SubSeq(plan, 1, firstError(plan))

\* The calls that really run (a throw leaves the try block).
executedCalls(c, p, fault) == untilError(plannedCalls(c, p, fault))

thrown(calls) ==
    IF calls # << >> /\ calls[Len(calls)].err # NoError
    THEN calls[Len(calls)].err
    ELSE NoError

-----------------------------------------------------------------------------
(* State *)

\* What a task did.  handler: the handler that ran ("input" for a control
\* whose handler only stores the new setting, "environment" for the native
\* runtime);
\* calls: the calls a frame made; caught: the error its catch block logged;
\* frame: processFrame ran in this task; propagated: the error that left
\* processFrame to its caller;
\* alert: the alert shown; rendered: the frame reached the screen;
\* requested: the next animation frame was requested; skipped: processFrame
\* returned at its first line; order: the statements of processFrame that ran,
\* in order; key: the key whose keydown event the task handled ("" for a
\* task that is not a keydown); input, output: the image handed to an
\* operation that was called on its own, and the image it returned;
\* pixels, accelerated, reference: a row of gray levels and the rows the two
\* backends make of it; elapsed: Date.now() - fpsCounter.lastTime as updateFPS
\* read it (-1 in a task that did not call updateFPS).
Did(h) ==
    [handler |-> h, frame |-> FALSE, calls |-> << >>,
     caught |-> NoError, propagated |-> NoError, alert |-> "",
     rendered |-> FALSE, requested |-> FALSE, skipped |-> FALSE,
     order |-> << >>, key |-> "", input |-> NoImage, output |-> NoImage,
     pixels |-> << >>, accelerated |-> << >>, reference |-> << >>,
     elapsed |-> -1]

\* fpsCounter as the class initialises it; lastTime is kept relative, as the
\* time elapsed since it when updateFPS reads the clock
InitFps == [frameCount |-> 0, currentFPS |-> 0]

InitConfig ==
    [threshold |-> DefaultThreshold, blurAmount |-> DefaultBlur,
     method |-> "sobel", mode |-> "opencv"]

\* animationId is "null", "live" (the id of a callback still pending) or
\* "stale" (the id of a callback that has run)
InitState == [isProcessing |-> FALSE, animationId |-> "null", videoStream |-> "null"]

\* The buttons start as the page's markup has them (Start enabled, Stop and
\* Capture disabled, button highlights as written in the page).
InitUi ==
    [startDisabled |-> FALSE, stopDisabled |-> TRUE, captureDisabled |-> TRUE,
     status |-> "", modeStatus |-> "",
     activeMode |-> "markup", activeAlgorithm |-> "markup"]

\* windowCv: the page's opencv.js script has defined window.cv (it has not
\* when the script is missing or failed to load); runtime: "absent", "loading",
\* "initialized" (onRuntimeInitialized has been dispatched); handler:
\* initialize() has set window.cv.onRuntimeInitialized; requests: getUserMedia
\* calls not yet settled; metadata: a loadedmetadata event is due;
\* orphans: pending processFrame callbacks that state.animationId does not
\* identify; leaked: some stream is running that state.videoStream does not
\* hold; timers: pending timers of captureScreenshot; stopped (history): stopWebcam has run and startWebcam has not been
\* invoked since.
InitEnv(loaded) ==
    [windowCv |-> loaded, runtime |-> IF loaded THEN "loading" ELSE "absent",
     handler |-> FALSE,
     requests |-> 0, metadata |-> FALSE, orphans |-> 0, leaked |-> FALSE,
     timers |-> 0, stopped |-> FALSE]

Init ==
    /\ app = "none"
    /\ config = InitConfig
    /\ state = InitState
    /\ ui = InitUi
    /\ proc = NoProcessor
    /\ \E loaded \in BOOLEAN : env = InitEnv(loaded)
    /\ fpsCounter = InitFps
    /\ last = Did("load")

-----------------------------------------------------------------------------
(* The page's environment *)

\* The mutant of RuntimeInitialized switches config.mode to 'opencv' when the
\* library becomes ready.
RuntimeInitializedSelectsOpenCV ==
    /\ env.runtime = "loading"
    /\ env' = [env EXCEPT !.runtime = "initialized"]
    /\ IF env.handler
       THEN /\ proc' = [proc EXCEPT !.isReady = TRUE, !.promise = "resolved"]
            /\ ui' = IF app = "running"
                     THEN [ui EXCEPT !.modeStatus = "OpenCV C++ Ready"]
                     ELSE ui
            /\ config' = [config EXCEPT !.mode = "opencv"]
            /\ last' = Did("environment")
       ELSE /\ UNCHANGED <<proc, ui, config>>
            /\ last' = Did("environment")
    /\ UNCHANGED <<app, state, fpsCounter>>

\* The native runtime finishes and dispatches onRuntimeInitialized once; if
\* initialize() has registered its handler by then, the handler sets isReady
\* and resolves, and initializeOpenCV continues after its await.
RuntimeInitialized ==
    /\ env.runtime = "loading"
    /\ env' = [env EXCEPT !.runtime = "initialized"]
    /\ IF env.handler
       THEN /\ proc' = [proc EXCEPT !.isReady = TRUE, !.promise = "resolved"]
            /\ ui' = IF app = "running"
                     THEN [ui EXCEPT !.modeStatus = "OpenCV C++ Ready"]
                     ELSE ui
            /\ last' = Did("environment")
       ELSE /\ UNCHANGED <<proc, ui>>
            /\ last' = Did("environment")
    /\ UNCHANGED <<app, config, state, fpsCounter>>

-----------------------------------------------------------------------------
(* EdgeDetectionApp *)

\* DOMContentLoaded: new EdgeDetectionApp().  A renderer that cannot be
\* created makes the constructor throw before anything else is set up.
\* Otherwise the processor is created, initializeOpenCV runs up to its await
\* (its catch block runs as a microtask of the same task when initialize()
\* rejected), and the listeners are registered.
\* The mutant of Construct starts the OpenCV initialization before it creates
\* the renderer.
ConstructInitializesFirst(webglOk) ==
    /\ app = "none"
    /\ LET r == initialize(NewProcessor, env)
           rejected == r.proc.promise = "rejected"
       IN /\ proc' = r.proc
          /\ env' = r.env
          /\ IF ~webglOk
             THEN /\ app' = "failed"
                  /\ last' = [Did("DOMContentLoaded") EXCEPT
                                !.caught = "Failed to initialize WebGL renderer"]
                  /\ UNCHANGED <<config, ui>>
             ELSE /\ app' = "running"
                  /\ config' = IF rejected
                               THEN [config EXCEPT !.mode = "typescript"]
                               ELSE config
                  /\ ui' = [ui EXCEPT
                              !.modeStatus = IF rejected
                                             THEN "OpenCV not available"
                                             ELSE "Loading OpenCV.js",
                              !.status = "Ready"]
                  /\ last' = [Did("DOMContentLoaded") EXCEPT
                                !.caught = IF rejected THEN "OpenCV.js not loaded"
                                           ELSE NoError]
    /\ UNCHANGED <<state, fpsCounter>>

Construct(webglOk) ==
    /\ app = "none"
    /\ IF ~webglOk
       THEN /\ app' = "failed"
            /\ last' = [Did("DOMContentLoaded") EXCEPT
                          !.caught = "Failed to initialize WebGL renderer"]
            /\ UNCHANGED <<config, state, ui, proc, env, fpsCounter>>
       ELSE LET r == initialize(NewProcessor, env)
                rejected == r.proc.promise = "rejected"
            IN /\ app' = "running"
               /\ proc' = r.proc
               /\ env' = r.env
               /\ config' = IF rejected
                            THEN [config EXCEPT !.mode = "typescript"]
                            ELSE config
               /\ ui' = [ui EXCEPT
                           !.modeStatus = IF rejected
                                          THEN "OpenCV not available"
                                          ELSE "Loading OpenCV.js",
                           !.status = "Ready"]
               /\ last' = [Did("DOMContentLoaded") EXCEPT
                             !.caught = IF rejected THEN "OpenCV.js not loaded"
                                        ELSE NoError]
               /\ UNCHANGED <<state, fpsCounter>>

\* The mutant of selectMode sets the mode without asking ready().
selectModeUnguarded(mode) ==
    /\ app = "running"
    /\ config' = [config EXCEPT !.mode = mode]
    /\ ui' = [ui EXCEPT !.activeMode = mode,
                        !.modeStatus = IF mode = "opencv"
                                       THEN "Using OpenCV C++"
                                       ELSE "Using TypeScript"]
    /\ last' = Did("input")
    /\ UNCHANGED <<app, state, proc, env, fpsCounter>>

\* The mutant of selectMode marks the buttons and the status text before it
\* asks whether OpenCV is ready.
selectModeMarksFirst(mode) ==
    /\ app = "running"
    /\ ui' = [ui EXCEPT !.activeMode = mode,
                        !.modeStatus = IF mode = "opencv"
                                       THEN "Using OpenCV C++"
                                       ELSE "Using TypeScript"]
    /\ IF mode = "opencv" /\ ~ready(proc)
       THEN /\ last' = [Did("selectMode") EXCEPT
                          !.alert = "OpenCV.js is not loaded yet"]
            /\ UNCHANGED config
       ELSE /\ config' = [config EXCEPT !.mode = mode]
            /\ last' = Did("input")
    /\ UNCHANGED <<app, state, proc, env, fpsCounter>>

selectMode(mode) ==
    /\ app = "running"
    /\ IF mode = "opencv" /\ ~ready(proc)
       THEN /\ last' = [Did("selectMode") EXCEPT
                          !.alert = "OpenCV.js is not loaded yet"]
            /\ UNCHANGED <<config, ui>>
       ELSE /\ config' = [config EXCEPT !.mode = mode]
            /\ ui' = [ui EXCEPT !.activeMode = mode,
                                !.modeStatus = IF mode = "opencv"
                                               THEN "Using OpenCV C++"
                                               ELSE "Using TypeScript"]
            /\ last' = Did("input")
    /\ UNCHANGED <<app, state, proc, env, fpsCounter>>

\* The mutant of selectAlgorithm lacks the grayscale guard.
selectAlgorithmUnguarded(method) ==
    /\ app = "running"
    /\ config' = [config EXCEPT !.method = method]
    /\ ui' = [ui EXCEPT !.activeAlgorithm = method]
    /\ last' = Did("input")
    /\ UNCHANGED <<app, state, proc, env, fpsCounter>>

selectAlgorithm(method) ==
    /\ app = "running"
    /\ IF method = "grayscale" /\ config.mode # "opencv"
       THEN /\ last' = [Did("selectAlgorithm") EXCEPT
                          !.alert = "Grayscale filter is only available in OpenCV mode"]
            /\ UNCHANGED <<config, ui>>
       ELSE /\ config' = [config EXCEPT !.method = method]
            /\ ui' = [ui EXCEPT !.activeAlgorithm = method]
            /\ last' = Did("input")
    /\ UNCHANGED <<app, state, proc, env, fpsCounter>>

\* input event of the threshold slider
setThreshold(v) ==
    /\ app = "running"
    /\ config' = [config EXCEPT !.threshold = v]
    /\ last' = Did("input")
    /\ UNCHANGED <<app, state, ui, proc, env, fpsCounter>>

\* input event of the blur slider
setBlur(v) ==
    /\ app = "running"
    /\ config' = [config EXCEPT !.blurAmount = v]
    /\ last' = Did("input")
    /\ UNCHANGED <<app, state, ui, proc, env, fpsCounter>>

-----------------------------------------------------------------------------
(* Camera and frame loop *)

\* the key of a shortcut when the handler was reached by it, "" for a click
KeyOf(via, key) == IF via = "key" THEN key ELSE ""

ActiveStatus == "Camera active! Processing in real-time (OpenGL ES 2.0)..."

\* startWebcam up to its await: a click on Start or the S key while Start is
\* enabled; getUserMedia is now outstanding.
startWebcam(via) ==
    /\ app = "running"
    /\ ~ui.startDisabled
    /\ env.requests < MaxRequests
    /\ env' = [env EXCEPT !.requests = @ + 1, !.stopped = FALSE]
    /\ last' = [Did("startWebcam") EXCEPT !.key = KeyOf(via, "s")]
    /\ UNCHANGED <<app, config, state, ui, proc, fpsCounter>>

\* getUserMedia resolves: startWebcam continues after its await.  The stream
\* replaces whatever state.videoStream held, and becomes the video element's
\* source, for which loadedmetadata is now due.
getUserMediaResolved ==
    /\ env.requests > 0
    /\ state' = [state EXCEPT !.videoStream = "stream"]
    /\ env' = [env EXCEPT !.requests = @ - 1, !.metadata = TRUE,
                          !.leaked = @ \/ state.videoStream = "stream"]
    /\ last' = Did("startWebcam")
    /\ UNCHANGED <<app, config, ui, proc, fpsCounter>>

\* getUserMedia rejects: the catch block of startWebcam
getUserMediaRejected ==
    /\ env.requests > 0
    /\ env' = [env EXCEPT !.requests = @ - 1]
    /\ ui' = [ui EXCEPT !.status = "Error"]
    /\ last' = [Did("startWebcam") EXCEPT !.caught = "Webcam error"]
    /\ UNCHANGED <<app, config, state, proc, fpsCounter>>

\* The catch block of processFrame: console.error('Processing error:', error),
\* and nothing is thrown on.  The mutant rethrows.
rethrows(err) == [caught |-> err, propagated |-> err]

catchBlock(err) == [caught |-> err, propagated |-> NoError]

\* Where processFrame requests the next animation frame: after the try/catch,
\* so whether or not the frame threw.  The mutant requests it inside the try.
requestsNextInTry(calls) == thrown(calls) = NoError

requestsNext(calls) == TRUE

\* processFrame past its first line, given the calls its try block made
\* The statements of processFrame in the order in which they run: the calls of
\* the try block, updateFPS when none of them threw, and at the end the
\* request for the next animation frame.  The mutant requests the next frame
\* on entry.
requestOnEntry(calls) ==
    (IF requestsNext(calls) THEN << "requestAnimationFrame" >> ELSE << >>)
    \o [i \in 1..Len(calls) |-> calls[i].op]
    \o (IF thrown(calls) = NoError THEN << "updateFPS" >> ELSE << >>)

statementOrder(calls) ==
    [i \in 1..Len(calls) |-> calls[i].op]
    \o (IF thrown(calls) = NoError THEN << "updateFPS" >> ELSE << >>)
    \o (IF requestsNext(calls) THEN << "requestAnimationFrame" >> ELSE << >>)

\* Math.round(num / den) for num >= 0, den > 0
round(num, den) == (2 * num + den) \div (2 * den)

\* updateFPS with elapsed = Date.now() - fpsCounter.lastTime: the frame is
\* counted; after FpsInterval the rate is published and the count starts over
\* (lastTime becomes the current time).
updateFPS(c, elapsed) ==
    IF elapsed >= FpsInterval
    THEN [frameCount |-> 0,
          currentFPS |-> round((c.frameCount + 1) * 1000, elapsed)]
    ELSE [c EXCEPT !.frameCount = @ + 1]

\* Whether the frame calls updateFPS: it is the last statement of the try
\* block, reached when no call before it threw.  The mutant counts every
\* frame that entered the try block.
callsUpdateFPSAlways(calls) == TRUE

callsUpdateFPS(calls) == thrown(calls) = NoError

\* The effects of a frame on the application's state.  The mutant ends the
\* processing when a call of the frame threw.
frameBodyStopsOnError(h, st, e, calls, elapsed) ==
    /\ fpsCounter' = IF callsUpdateFPS(calls)
                     THEN updateFPS(fpsCounter, elapsed) ELSE fpsCounter
    /\ state' = [st EXCEPT !.animationId = "live",
                           !.isProcessing = (thrown(calls) = NoError)]
    /\ env' = IF st.animationId = "live"
              THEN [e EXCEPT !.orphans = @ + 1]
              ELSE e
    /\ last' = [Did(h) EXCEPT
                  !.frame = TRUE,
                  !.calls = calls,
                  !.caught = thrown(calls),
                  !.rendered = (thrown(calls) = NoError),
                  !.requested = TRUE,
                  !.order = statementOrder(calls),
                  !.elapsed = IF callsUpdateFPS(calls) THEN elapsed ELSE -1]

frameBody(h, st, e, calls, elapsed) ==
    /\ fpsCounter' = IF callsUpdateFPS(calls)
                     THEN updateFPS(fpsCounter, elapsed) ELSE fpsCounter
    /\ state' = IF requestsNext(calls)
                THEN [st EXCEPT !.animationId = "live"]
                ELSE st
    /\ env' = IF requestsNext(calls) /\ st.animationId = "live"
              THEN [e EXCEPT !.orphans = @ + 1]
              ELSE e
    /\ last' = [Did(h) EXCEPT
                  !.frame = TRUE,
                  !.calls = calls,
                  !.caught = catchBlock(thrown(calls)).caught,
                  !.propagated = catchBlock(thrown(calls)).propagated,
                  !.rendered = (thrown(calls) = NoError),
                  !.requested = requestsNext(calls),
                  !.order = statementOrder(calls),
                  !.elapsed = IF callsUpdateFPS(calls) THEN elapsed ELSE -1]

\* processFrame, run in state st and environment e (what the task has made of
\* state and env before calling it); h names the task.  It reads config and
\* the processor's readiness when it runs; the mutant reads the
\* configuration as it was when the callback was created.
processFrameCapturedConfig(h, fault, st, e, elapsed) ==
    IF ~st.isProcessing
    THEN /\ state' = st
         /\ env' = e
         /\ fpsCounter' = fpsCounter
         /\ last' = [Did(h) EXCEPT !.frame = TRUE, !.skipped = TRUE]
    ELSE frameBody(h, st, e, executedCalls(InitConfig, proc, fault), elapsed)

processFrame(h, fault, st, e, elapsed) ==
    IF ~st.isProcessing
    THEN /\ state' = st
         /\ env' = e
         /\ fpsCounter' = fpsCounter
         /\ last' = [Did(h) EXCEPT !.frame = TRUE, !.skipped = TRUE]
    ELSE frameBody(h, st, e, executedCalls(config, proc, fault), elapsed)

\* The clock readings of the model: a frame that reads elapsed < FpsInterval
\* is taken only while fewer than MaxFrames frames are counted.
inTime(elapsed) == elapsed < FpsInterval => fpsCounter.frameCount < MaxFrames

pendingCallbacks == env.orphans + IF state.animationId = "live" THEN 1 ELSE 0

\* webcamElement.onloadedmetadata
loadedMetadata(fault, elapsed) ==
    /\ env.metadata
    /\ pendingCallbacks < MaxCallbacks
    /\ inTime(elapsed)
    /\ ui' = [ui EXCEPT !.status = ActiveStatus, !.startDisabled = TRUE,
                        !.stopDisabled = FALSE, !.captureDisabled = FALSE]
    /\ processFrame("loadedmetadata", fault,
                    [state EXCEPT !.isProcessing = TRUE],
                    [env EXCEPT !.metadata = FALSE], elapsed)
    /\ UNCHANGED <<app, config, proc>>

\* the animation-frame callback that state.animationId identifies runs
animationFrame(fault, elapsed) ==
    /\ state.animationId = "live"
    /\ inTime(elapsed)
    /\ processFrame("animationFrame", fault,
                    [state EXCEPT !.animationId = "stale"], env, elapsed)
    /\ UNCHANGED <<app, config, ui, proc>>

\* an animation-frame callback that state.animationId does not identify runs
orphanFrame(fault, elapsed) ==
    /\ env.orphans > 0
    /\ inTime(elapsed)
    /\ processFrame("animationFrame", fault, state,
                    [env EXCEPT !.orphans = @ - 1], elapsed)
    /\ UNCHANGED <<app, config, ui, proc>>

\* A call of the browser made by stopWebcam.
BrowserCall(op) ==
    [target |-> "browser", op |-> op, args |-> << >>, err |-> NoError,
     steps |-> << >>]

\* The body of stopWebcam run on state st and controls u: the state and the
\* controls it leaves, the browser calls it makes, and the error it raises.
\* It cancels the animation frame only when animationId is not null and
\* stops the tracks only when there is a stream.  The mutant stops the
\* tracks of state.videoStream without looking at it first.
stopWebcamBodyUnguarded(st, u) ==
    IF st.videoStream = "null"
    THEN [state |-> [st EXCEPT !.isProcessing = FALSE, !.animationId = "null"],
          ui    |-> u,
          calls |-> IF st.animationId # "null"
                    THEN << BrowserCall("cancelAnimationFrame") >> ELSE << >>,
          err   |-> "TypeError"]
    ELSE [state |-> [isProcessing |-> FALSE, animationId |-> "null",
                     videoStream |-> "null"],
          ui    |-> [u EXCEPT !.status = "Camera stopped.",
                              !.startDisabled = FALSE,
                              !.stopDisabled = TRUE, !.captureDisabled = TRUE],
          calls |-> (IF st.animationId # "null"
                     THEN << BrowserCall("cancelAnimationFrame") >> ELSE << >>)
                    \o << BrowserCall("track.stop") >>,
          err   |-> NoError]

stopWebcamBody(st, u) ==
    [state |-> [isProcessing |-> FALSE, animationId |-> "null",
                videoStream |-> "null"],
     ui    |-> [u EXCEPT !.status = "Camera stopped.", !.startDisabled = FALSE,
                         !.stopDisabled = TRUE, !.captureDisabled = TRUE],
     calls |-> (IF st.animationId # "null"
                THEN << BrowserCall("cancelAnimationFrame") >> ELSE << >>)
               \o (IF st.videoStream # "null"
                   THEN << BrowserCall("track.stop") >> ELSE << >>),
     err   |-> NoError]

\* The mutant of stopWebcam cancels the pending callback but keeps its id in
\* state.animationId, and leaves the Capture button as it is.
stopWebcamKeepsId(via) ==
    /\ app = "running"
    /\ ~ui.stopDisabled
    /\ via = "key" => ui.startDisabled
    /\ state' = [isProcessing |-> FALSE,
                 animationId |-> IF state.animationId = "null"
                                 THEN "null" ELSE "stale",
                 videoStream |-> "null"]
    /\ ui' = [ui EXCEPT !.status = "Camera stopped.", !.startDisabled = FALSE,
                        !.stopDisabled = TRUE]
    /\ env' = [env EXCEPT !.stopped = TRUE]
    /\ last' = [Did("stopWebcam") EXCEPT !.key = KeyOf(via, "s")]
    /\ UNCHANGED <<app, config, proc, fpsCounter>>

\* stopWebcam: a click on Stop, or the S key while Start is disabled and
\* Stop enabled
stopWebcam(via) ==
    /\ app = "running"
    /\ ~ui.stopDisabled
    /\ via = "key" => ui.startDisabled
    /\ state' = stopWebcamBody(state, ui).state
    /\ ui' = stopWebcamBody(state, ui).ui
    /\ env' = [env EXCEPT !.stopped = TRUE]
    /\ last' = [Did("stopWebcam") EXCEPT !.key = KeyOf(via, "s")]
    /\ UNCHANGED <<app, config, proc, fpsCounter>>

\* stopWebcam invoked whatever the buttons show: with the camera running,
\* already stopped, or never started
stopWebcamCalled ==
    /\ app = "running"
    /\ LET r == stopWebcamBody(state, ui)
       IN /\ state' = r.state
          /\ ui' = r.ui
          /\ last' = [Did("stopWebcam") EXCEPT !.calls = r.calls,
                                               !.propagated = r.err]
    /\ env' = [env EXCEPT !.stopped = TRUE]
    /\ UNCHANGED <<app, config, proc, fpsCounter>>

\* captureScreenshot: a click on Capture, or the C key while Capture is
\* enabled.  fails: outputCanvas.toDataURL() or the download throws.
captureScreenshot(via, fails) ==
    /\ app = "running"
    /\ ~ui.captureDisabled
    /\ IF fails
       THEN /\ ui' = [ui EXCEPT !.status = "Error"]
            /\ env' = env
            /\ last' = [Did("captureScreenshot") EXCEPT
                          !.caught = "capture error", !.key = KeyOf(via, "c")]
       ELSE /\ env.timers < MaxTimers
            /\ ui' = [ui EXCEPT !.status = "Screenshot saved!"]
            /\ env' = [env EXCEPT !.timers = @ + 1]
            /\ last' = [Did("captureScreenshot") EXCEPT !.key = KeyOf(via, "c")]
    /\ UNCHANGED <<app, config, state, proc, fpsCounter>>

\* the timer captureScreenshot set two seconds ago
captureTimer ==
    /\ env.timers > 0
    /\ ui' = [ui EXCEPT !.status = ActiveStatus]
    /\ env' = [env EXCEPT !.timers = @ - 1]
    /\ last' = Did("timer")
    /\ UNCHANGED <<app, config, state, proc, fpsCounter>>

\* a key that the handler ignores: no shortcut, or S with Start and Stop
\* both disabled, or C with Capture disabled
keyIgnored(key) ==
    /\ last' = [Did("keydown") EXCEPT !.key = key]
    /\ UNCHANGED <<app, config, state, ui, proc, env, fpsCounter>>

\* The mutant of keydown does not look at the Capture button.
keydownCaptureUnguarded(key, fails) ==
    /\ app = "running"
    /\ CASE key = "s" ->
               IF ~ui.startDisabled THEN startWebcam("key")
               ELSE IF ~ui.stopDisabled THEN stopWebcam("key")
               ELSE keyIgnored(key)
         [] key = "c" ->
               /\ env.timers < MaxTimers
               /\ ui' = [ui EXCEPT !.status = "Screenshot saved!"]
               /\ env' = [env EXCEPT !.timers = @ + 1]
               /\ last' = [Did("captureScreenshot") EXCEPT !.key = key]
               /\ UNCHANGED <<app, config, state, proc, fpsCounter>>
         [] OTHER -> keyIgnored(key)

\* the document's keydown handler
keydown(key, fails) ==
    /\ app = "running"
    /\ CASE key = "s" ->
               IF ~ui.startDisabled THEN startWebcam("key")
               ELSE IF ~ui.stopDisabled THEN stopWebcam("key")
               ELSE keyIgnored(key)
         [] key = "c" ->
               IF ~ui.captureDisabled THEN captureScreenshot("key", fails)
               ELSE keyIgnored(key)
         [] OTHER -> keyIgnored(key)

-----------------------------------------------------------------------------
\* the faults a frame can meet: none (0), or the i-th call it plans throws
\* (capture, the blur and operator calls of the branch, render)
\* the keys pressed: the two shortcuts and one key that is none
Keys == {"s", "c", "x"}

Faults == 0..(3 + 2 * blurCalls(config))

Next ==
    \/ RuntimeInitialized
    \/ \E ok \in BOOLEAN : Construct(ok)
    \/ \E m \in Modes : selectMode(m)
    \/ \E m \in Methods : selectAlgorithm(m)
    \/ \E v \in ThresholdValues : setThreshold(v)
    \/ \E v \in BlurValues : setBlur(v)
    \/ startWebcam("click")
    \/ getUserMediaResolved
    \/ \E f \in Faults : loadedMetadata(f, SlowFrame)
    \/ \E f \in Faults : animationFrame(f, SlowFrame)
    \/ \E f \in Faults : orphanFrame(f, SlowFrame)
    \/ stopWebcam("click")

\* The frame pipeline under every setting, with frames that come SlowFrame
\* milliseconds after fpsCounter.lastTime.  (The keyboard shortcuts, the
\* screenshot and its timer, and a getUserMedia that rejects, which write
\* nothing a frame reads, are explored by UiSpec; frames at other times by
\* FpsSpec.)
Spec == Init /\ [][Next]_vars

\* The setting controls alone, before a camera is started.
SettingsNext ==
    \/ RuntimeInitialized
    \/ \E ok \in BOOLEAN : Construct(ok)
    \/ \E m \in Modes : selectMode(m)
    \/ \E m \in Methods : selectAlgorithm(m)
    \/ \E v \in ThresholdValues : setThreshold(v)
    \/ \E v \in BlurValues : setBlur(v)

SettingsSpec == Init /\ [][SettingsNext]_vars

\* The controls: the buttons, the keyboard shortcuts, the screenshot and its
\* timer, with the camera and the frame loop, under the settings the
\* application starts with.  (The handlers of the settings write config and
\* the button highlights only, which no handler below reads except to choose
\* the calls of a frame; Spec explores them.)
UiNext ==
    \/ RuntimeInitialized
    \/ \E ok \in BOOLEAN : Construct(ok)
    \/ startWebcam("click")
    \/ getUserMediaResolved
    \/ getUserMediaRejected
    \/ \E f \in Faults : loadedMetadata(f, SlowFrame)
    \/ \E f \in Faults : animationFrame(f, SlowFrame)
    \/ \E f \in Faults : orphanFrame(f, SlowFrame)
    \/ stopWebcam("click")
    \/ \E fails \in BOOLEAN : captureScreenshot("click", fails)
    \/ captureTimer
    \/ \E key \in Keys : \E fails \in BOOLEAN : keydown(key, fails)

UiSpec == Init /\ [][UiNext]_vars

\* what Date.now() - fpsCounter.lastTime can be when updateFPS reads the clock
ElapsedValues == {0, FpsInterval - 1, FpsInterval, SlowFrame}

\* The frame counter: the camera and the frame loop under the settings the
\* application starts with, with frames at every time of ElapsedValues.
FpsNext ==
    \/ RuntimeInitialized
    \/ \E ok \in BOOLEAN : Construct(ok)
    \/ startWebcam("click")
    \/ getUserMediaResolved
    \/ \E f \in Faults : \E t \in ElapsedValues : loadedMetadata(f, t)
    \/ \E f \in Faults : \E t \in ElapsedValues : animationFrame(f, t)
    \/ \E f \in Faults : \E t \in ElapsedValues : orphanFrame(f, t)
    \/ stopWebcam("click")

FpsSpec == Init /\ [][FpsNext]_vars

\* stopWebcam in every state of the camera and the frame loop, under the
\* settings the application starts with.
StopNext ==
    \/ RuntimeInitialized
    \/ \E ok \in BOOLEAN : Construct(ok)
    \/ startWebcam("click")
    \/ getUserMediaResolved
    \/ \E f \in Faults : loadedMetadata(f, SlowFrame)
    \/ \E f \in Faults : animationFrame(f, SlowFrame)
    \/ \E f \in Faults : orphanFrame(f, SlowFrame)
    \/ stopWebcamCalled

StopSpec == Init /\ [][StopNext]_vars

-----------------------------------------------------------------------------
(* OpenCVProcessor on its own: the class is exported, and any of its       *)
(* methods can be called in any of its states.                             *)

\* arguments the operations are called with
ArgsOf(op) ==
    CASE op = "canny" -> {<<lo, hi>> : lo \in ThresholdValues, hi \in ThresholdValues}
      [] op = "gaussianBlur" -> {<<2 * b + 1>> : b \in BlurValues}
      [] op = "sobel" -> {<<SobelDefaultKsize>>}
      [] op = "laplacian" -> {<<LaplacianDefaultKsize>>}
      [] op = "grayscale" -> {<< >>}

ProcInit ==
    /\ app = "none"
    /\ config = InitConfig
    /\ state = InitState
    /\ ui = InitUi
    /\ proc = NewProcessor
    /\ \E loaded \in BOOLEAN : env = InitEnv(loaded)
    /\ fpsCounter = InitFps
    /\ last = Did("load")

\* processor.initialize(), called once
callInitialize ==
    /\ proc.promise = "none"
    /\ LET r == initialize(proc, env)
       IN /\ proc' = r.proc
          /\ env' = r.env
    /\ last' = Did("initialize")
    /\ UNCHANGED <<app, config, state, ui, fpsCounter>>

\* the images handed to an operation
Images == { [width |-> w, height |-> h] : w \in 1..MaxDim, h \in 1..MaxDim }

\* processor.<op>(imageData, args); failAt is the native step that throws
callOperation(op, args, failAt, image) ==
    /\ LET c == CvCall(proc, op, args, failAt)
       IN last' = [Did("call") EXCEPT !.calls = <<c>>, !.propagated = c.err,
                                      !.input = image,
                                      !.output = returned(proc, op, failAt, image)]
    /\ UNCHANGED <<app, config, state, ui, proc, env, fpsCounter>>

ProcNext ==
    \/ callInitialize
    \/ RuntimeInitialized
    \/ \E op \in CvOps : \E args \in ArgsOf(op) : \E k \in 0..Len(StepsOf(op)) :
           \E image \in Images : callOperation(op, args, k, image)

ProcSpec == ProcInit /\ [][ProcNext]_vars

-----------------------------------------------------------------------------
(* The two backends on pixels.  The image is a frame whose rows are all the *)
(* same row of gray pixels (r = g = b, alpha 255): its luma is the gray     *)
(* level, its vertical gradient is zero, and a 3x3 separable kernel acts on *)
(* it as its horizontal 1-D factor times the sum of its vertical factor.    *)

\* the per-pixel difference within which two backends count as matching
Tolerance == 2

\* the gray levels of a pixel: black, mid gray, white
PixelValues == {0, 128, 255}

\* the rows of RowLen pixels
Rows == [1..RowLen -> PixelValues]

abs(v) == IF v < 0 THEN -v ELSE v

\* saturate_cast<uchar> / Uint8ClampedArray
saturate(v) == IF v > 255 THEN 255 ELSE IF v < 0 THEN 0 ELSE v

\* num / den rounded to the nearest integer, halves to the even one (num >= 0)
roundHalfEven(num, den) ==
    LET q == num \div den
        r == num % den
    IN IF 2 * r < den THEN q
       ELSE IF 2 * r > den THEN q + 1
       ELSE IF q % 2 = 0 THEN q ELSE q + 1

\* the column a window reads at column i of n: cv.BORDER_DEFAULT mirrors
\* about the edge pixel, the reference engine repeats the edge pixel
reflect101(i, n) == IF i < 1 THEN 2 - i ELSE IF i > n THEN 2 * n - i ELSE i
replicate(i, n) == IF i < 1 THEN 1 ELSE IF i > n THEN n ELSE i

\* cv.GaussianBlur(gray, blurred, new cv.Size(3, 3), 0): the kernel 1 2 1 / 4
cvGaussianBlur(row) ==
    [j \in 1..RowLen |->
        roundHalfEven(row[reflect101(j - 1, RowLen)] + 2 * row[j]
                          + row[reflect101(j + 1, RowLen)], 4)]

\* cv.Sobel(blurred, gradX, cv.CV_16S, 1, 0, 3): -1 0 1 across, 1 2 1 down
cvSobelX(row) ==
    [j \in 1..RowLen |->
        4 * (row[reflect101(j + 1, RowLen)] - row[reflect101(j - 1, RowLen)])]

\* cv.Sobel(blurred, gradY, cv.CV_16S, 0, 1, 3): all rows are the same
cvSobelY(row) == [j \in 1..RowLen |-> 0]

\* cv.convertScaleAbs(src, dst): the absolute value, cut to 8 bits
convertScaleAbs(g) == [j \in 1..RowLen |-> saturate(abs(g[j]))]

\* cv.addWeighted(a, 0.5, b, 0.5, 0, edges)
addWeighted(a, b) ==
    [j \in 1..RowLen |-> saturate(roundHalfEven(a[j] + b[j], 2))]

\* OpenCVProcessor.sobel on a row: grayscale, blur, gradients, absolute
\* values, weighted sum
cvSobelPixels(row) ==
    LET blurred == cvGaussianBlur(row)
    IN addWeighted(convertScaleAbs(cvSobelX(blurred)),
                   convertScaleAbs(cvSobelY(blurred)))

\* the reference engine's 3x3 Gaussian blur: 1 2 1 / 4, edge repeated
EdgeDetectorBlur(row) ==
    [j \in 1..RowLen |->
        roundHalfEven(row[replicate(j - 1, RowLen)] + 2 * row[j]
                          + row[replicate(j + 1, RowLen)], 4)]

\* EdgeDetector.sobel on a row: grayscale, the optional blur, gradients with
\* the edge repeated, 0.5*|Gx| + 0.5*|Gy| kept wide and cut to 8 bits on
\* emission
EdgeDetectorSobelPixels(row, blurs) ==
    LET g == IF blurs THEN EdgeDetectorBlur(row) ELSE row
    IN [j \in 1..RowLen |->
           saturate(roundHalfEven(
               abs(4 * (g[replicate(j + 1, RowLen)] - g[replicate(j - 1, RowLen)]))
                   + 0, 2))]

\* one frame handed to both backends as processFrame hands it, under the
\* same config with no driver blur (blurAmount 0):
\* opencvProcessor.sobel(imageData) and
\* EdgeDetector.sobel(imageData, config.threshold)
sobelOnBothBackends(row, blurs) ==
    /\ ready(proc)
    /\ last' = [Did("sobel") EXCEPT !.pixels = row,
                                    !.accelerated = cvSobelPixels(row),
                                    !.reference = EdgeDetectorSobelPixels(row, blurs)]
    /\ UNCHANGED <<app, config, state, ui, proc, env, fpsCounter>>

PixelNext ==
    \/ callInitialize
    \/ RuntimeInitialized
    \/ \E row \in Rows : \E blurs \in BOOLEAN : sobelOnBothBackends(row, blurs)

PixelSpec == ProcInit /\ [][PixelNext]_vars

-----------------------------------------------------------------------------
(* Properties *)

\* the calls of the task that ran last
Calls == { last.calls[i] : i \in 1..Len(last.calls) }
\* the task that ran last executed the body of processFrame
FrameRan == last.frame /\ ~last.skipped
\* a call that applies an edge operator (not a blur, a capture or a render)
IsOperatorCall(c) == c.target \in {"OpenCVProcessor", "EdgeDetector"} /\ c.op \in Methods

\* C1: a frame processed while OpenCVProcessor.ready() is false invokes no
\* OpenCVProcessor operation, whatever config.mode and config.method are: every
\* blur and every edge operator it applies is EdgeDetector's.
C1_NotReadyUsesReferenceOnly ==
    (FrameRan /\ ~proc.isReady) =>
        /\ \A c \in Calls : c.target # "OpenCVProcessor"
        /\ \A c \in Calls : (c.op \in Methods \cup {"gaussianBlur"})
                                => c.target = "EdgeDetector"

\* C1 witness: with the mode still 'opencv' and the processor not ready, a
\* frame was processed and rendered through EdgeDetector.
C1_Witness ==
    /\ FrameRan /\ ~proc.isReady /\ config.mode = "opencv"
    /\ config.method = "canny" /\ last.rendered
    /\ \E c \in Calls : c.target = "EdgeDetector" /\ c.op = "canny"

\* C2: an OpenCVProcessor operation called while the processor is not ready
\* throws 'OpenCV not initialized' before any native step (no Mat created, no
\* library call), and leaves isReady and cv as they were.
C2_NotReadyCallFailsFirst ==
    [][ (last'.handler = "call" /\ ~proc.isReady) =>
            /\ last'.calls[1].err = NotInitialized
            /\ last'.propagated = NotInitialized
            /\ last'.calls[1].steps = << >>
            /\ proc' = proc ]_vars

\* C2 witness: after initialize() registered its handler, but before the
\* runtime is up, sobel was called and failed so.
C2_Witness ==
    /\ last.handler = "call" /\ ~proc.isReady /\ proc.cv = "window.cv"
    /\ last.calls[1].op = "sobel"
    /\ last.calls[1].err = NotInitialized
    /\ last.calls[1].steps = << >>

\* C3: with config.method 'roberts' or 'prewitt' the edge operator applied to
\* the frame is EdgeDetector's operator of that name, in both modes and
\* whether or not the processor is ready; a frame that was rendered applied it.
C3_RobertsPrewittOnReference ==
    (FrameRan /\ config.method \in {"roberts", "prewitt"}) =>
        /\ \A c \in Calls : IsOperatorCall(c) =>
                (c.target = "EdgeDetector" /\ c.op = config.method)
        /\ last.rendered =>
                \E c \in Calls : c.target = "EdgeDetector" /\ c.op = config.method

\* C3 witness: in opencv mode with the processor ready, a roberts frame was
\* rendered.
C3_Witness ==
    /\ FrameRan /\ config.mode = "opencv" /\ proc.isReady
    /\ config.method = "roberts" /\ last.rendered
    /\ \E c \in Calls : c.target = "EdgeDetector" /\ c.op = "roberts"

\* C4: once initialize() has been called the backend leaves Initializing: as
\* long as its promise is pending, the dispatch of onRuntimeInitialized that
\* settles it is still to come and will find the handler.  (When the runtime
\* has dispatched it already, nothing is left that could settle the promise.)
C4_InitializingCanSettle ==
    proc.promise = "pending" => (env.runtime = "loading" /\ env.handler)

\* C5: while the initialization is pending the camera can be started, and the
\* frame loop runs as it does otherwise: while isProcessing is true its next
\* callback is scheduled, and every frame processed meanwhile uses
\* EdgeDetector only and is rendered unless one of its own calls throws.
C5_PendingDoesNotBlockFrames ==
    (app = "running" /\ proc.promise = "pending") =>
        /\ (~ui.startDisabled /\ env.requests < MaxRequests)
                => ENABLED startWebcam("click")
        /\ state.isProcessing => state.animationId = "live"
        /\ FrameRan =>
              /\ \A c \in Calls : c.target # "OpenCVProcessor"
              /\ last.caught # NotInitialized
              /\ (\A c \in Calls : c.err = NoError) => last.rendered

\* C5 witness: with the promise pending, the camera was started and an
\* animation frame was processed by EdgeDetector.sobel and rendered.
C5_Witness ==
    /\ proc.promise = "pending" /\ state.videoStream = "stream"
    /\ last.handler = "animationFrame" /\ FrameRan /\ last.rendered
    /\ \E c \in Calls : c.target = "EdgeDetector" /\ c.op = "sobel"

\* C6: once initialize() has rejected, config.mode is 'typescript' and ready()
\* is false, in every later state, whatever is selected afterwards.
C6_RejectedStaysTypescript ==
    proc.promise = "rejected" => (config.mode = "typescript" /\ ~ready(proc))

\* C6 witness: after the rejection, selectMode('opencv') was tried and refused.
C6_Witness ==
    /\ proc.promise = "rejected"
    /\ last.alert = "OpenCV.js is not loaded yet"
    /\ config.mode = "typescript"

\* the calls of OpenCVProcessor.canny that the last task made
CannyCalls == { c \in Calls : c.target = "OpenCVProcessor" /\ c.op = "canny" }

C8_ErrorReachesCaller ==
    (FrameRan /\ thrown(last.calls) # NoError) =>
        last.propagated = thrown(last.calls)

\* C8 as amended: an error thrown while a frame is processed is caught by
\* processFrame and logged unmodified; nothing reaches the caller, and no
\* result is rendered for that frame.
C8_ErrorCaughtAndLogged ==
    (FrameRan /\ thrown(last.calls) # NoError) =>
        /\ last.caught = thrown(last.calls)
        /\ last.propagated = NoError
        /\ ~last.rendered
        /\ \A c \in Calls : c.target # "webglRenderer" \/ c.err # NoError

\* C8 witness: the operator of a frame threw, and the error was logged.
C8_Witness ==
    /\ FrameRan /\ last.caught = "EdgeDetector error"
    /\ last.propagated = NoError /\ ~last.rendered

\* the frame ran the TypeScript branch with a method it does not implement
UnsupportedOnReference ==
    FrameRan /\ ~useOpenCV(config, proc) /\ config.method = "grayscale"

\* C9 as claimed: such a frame reports UnsupportedOperator and applies no
\* operator in place of the one asked for.
C9_ReportsUnsupported ==
    UnsupportedOnReference =>
        /\ last.caught = "UnsupportedOperator"
        /\ \A c \in Calls : ~IsOperatorCall(c)

\* C9 as amended: such a frame reports no error of its own and applies
\* EdgeDetector.sobel with config.threshold in place of grayscale.
C9_SobelSubstituted ==
    UnsupportedOnReference =>
        /\ last.caught # "UnsupportedOperator"
        /\ \A c \in Calls : IsOperatorCall(c) =>
              (c.target = "EdgeDetector" /\ c.op = "sobel"
                 /\ c.args = <<config.threshold>>)
        /\ last.rendered => \E c \in Calls : IsOperatorCall(c)

\* C9 witness: grayscale was selected in opencv mode, the mode was then set to
\* typescript, and a frame was rendered with sobel.
C9_Witness ==
    /\ UnsupportedOnReference /\ config.mode = "typescript" /\ last.rendered
    /\ \E c \in Calls : c.target = "EdgeDetector" /\ c.op = "sobel"

\* C10: a frame that ran while isProcessing was true has requested the next
\* animation frame whether or not a step of it threw, and the callback it
\* requested is pending: while isProcessing is true the loop has a frame to
\* come.
C10_ErrorsDoNotStopLoop ==
    /\ FrameRan => (last.requested /\ state.animationId = "live")
    /\ state.isProcessing => state.animationId = "live"

\* C10 witness: rendering threw in a frame, and the next frame is requested.
C10_Witness ==
    /\ FrameRan /\ last.caught = "WebGL error"
    /\ last.requested /\ state.animationId = "live" /\ state.isProcessing

\* the blur calls (of either backend) that the last task made
BlurCallCount ==
    Cardinality({ i \in 1..Len(last.calls) : last.calls[i].op = "gaussianBlur" })

\* the last task's frame got as far as its edge operator
OperatorReached == FrameRan /\ \E c \in Calls : IsOperatorCall(c)

\* C11: a frame that reaches its operator has applied the driver's blur
\* exactly once when config.blurAmount > 0 and not at all when it is 0,
\* for every method and both backends.
C11_BlurExactlyOnce ==
    OperatorReached =>
        BlurCallCount = (IF config.blurAmount > 0 THEN 1 ELSE 0)

\* positions of the request for the next animation frame among the
\* statements the last task's frame ran
RequestPositions ==
    { i \in 1..Len(last.order) : last.order[i] = "requestAnimationFrame" }

\* C12: a task runs processFrame to its end before any other task starts, and
\* within it the request for the next animation frame is the last statement:
\* it is issued once, after the capture, the processing, the rendering and
\* the FPS update of the current frame have ended (or an error has ended them).
C12_NextRequestedAfterFrameEnds ==
    FrameRan =>
        /\ RequestPositions = { Len(last.order) }
        /\ Len(last.order) = Len(last.calls)
                + (IF last.rendered THEN 1 ELSE 0) + 1
        /\ \A i \in 1..Len(last.calls) : last.order[i] = last.calls[i].op
        /\ last.rendered =>
              /\ last.order[Len(last.order) - 2] = "render"
              /\ last.order[Len(last.order) - 1] = "updateFPS"

\* C12 witness: a frame was captured, processed, rendered and counted, and
\* then requested its successor.
C12_Witness ==
    /\ FrameRan /\ last.rendered /\ last.handler = "animationFrame"
    /\ Len(last.order) >= 5
    /\ last.order[Len(last.order)] = "requestAnimationFrame"

\* C13: after stopWebcam has run and until startWebcam is invoked again, no
\* frame is processed or rendered and isProcessing stays false, whatever
\* callback or event was pending when the stop ran.
C13_StoppedStaysStopped ==
    env.stopped => (~state.isProcessing /\ ~FrameRan)

\* the frame is processed on the accelerated path
Accelerated == config.mode = "opencv" /\ proc.isReady

\* C14: the backend and the operator a frame applies, and the arguments it
\* passes, are those that config and the processor's readiness determine when
\* the frame is processed: whatever was selected before the frame is what the
\* frame uses, and nothing of an earlier frame enters into it.
C14_FrameUsesCurrentConfig ==
    FrameRan =>
        \A c \in Calls :
            /\ IsOperatorCall(c) =>
                  /\ c.target = (IF Accelerated /\ config.method \notin {"roberts", "prewitt"}
                                 THEN "OpenCVProcessor" ELSE "EdgeDetector")
                  /\ c.op = (IF config.method = "grayscale" /\ ~Accelerated
                             THEN "sobel" ELSE config.method)
                  /\ c.target = "EdgeDetector" => c.args = <<config.threshold>>
                  /\ (c.target = "OpenCVProcessor" /\ c.op = "canny")
                        => c.args = <<config.threshold, 2 * config.threshold>>
            /\ c.op = "gaussianBlur" =>
                  /\ config.blurAmount > 0
                  /\ c.target = "OpenCVProcessor" =>
                        (Accelerated /\ c.args = <<2 * config.blurAmount + 1>>)
                  /\ c.target = "EdgeDetector" => c.args = <<config.blurAmount>>

\* C14 witness: after the mode, the method, the threshold and the blur were
\* all changed from their initial values, a frame was processed with them.
C14_Witness ==
    /\ FrameRan /\ last.rendered /\ proc.isReady
    /\ config = [threshold |-> 0, blurAmount |-> 0,
                 method |-> "canny", mode |-> "typescript"]
    /\ \E c \in Calls : c.target = "EdgeDetector" /\ c.op = "canny" /\ c.args = <<0>>

\* C15: a task that only runs processFrame (an animation-frame callback)
\* leaves config, state.isProcessing, state.videoStream and the processor's
\* fields unchanged, whether the frame is rendered or a call of it throws.
C15_FrameLeavesSettingsAlone ==
    [][(last'.frame /\ last'.handler = "animationFrame") =>
          /\ config' = config
          /\ state'.isProcessing = state.isProcessing
          /\ state'.videoStream = state.videoStream
          /\ proc' = proc]_vars

\* C15 witness: a native call of a frame threw, and the frame loop, the
\* stream and the processor's readiness are as they were.
C15_Witness ==
    /\ FrameRan /\ last.handler = "animationFrame" /\ last.caught = NativeError
    /\ state.isProcessing /\ state.videoStream = "stream" /\ proc.isReady

\* C16: selectAlgorithm('grayscale') called while config.mode is not 'opencv'
\* is rejected with an alert: config (so config.method) keeps its value and
\* the active algorithm button stays the one it was.
C16_GrayscaleRejectedOutsideOpenCV ==
    [][(config.mode # "opencv" /\ selectAlgorithm("grayscale")) =>
          /\ config' = config
          /\ ui'.activeAlgorithm = ui.activeAlgorithm
          /\ last'.alert = "Grayscale filter is only available in OpenCV mode"]_vars

\* C16 witness: in typescript mode with canny selected, grayscale was asked
\* for and refused.
C16_Witness ==
    /\ last.handler = "selectAlgorithm"
    /\ last.alert = "Grayscale filter is only available in OpenCV mode"
    /\ config.mode = "typescript" /\ config.method = "canny"
    /\ ui.activeAlgorithm = "canny"

\* the native steps that are a Gaussian blur
BlurSteps == {"GaussianBlur 3x3", "GaussianBlur ksize"}

\* C17: in every call of OpenCVProcessor.canny that reaches the edge stage, a
\* Gaussian blur runs after the grayscale conversion and before cv.Canny,
\* whatever config.blurAmount is.
C17_CannyBlursAfterGrayscale ==
    \A c \in CannyCalls :
        \A k \in 1..Len(c.steps) :
            c.steps[k].fn = "Canny" =>
                \E i, j \in 1..k :
                    /\ i < j /\ j < k
                    /\ c.steps[i].fn = "cvtColor RGBA2GRAY"
                    /\ c.steps[j].fn \in BlurSteps

\* the completed calls of OpenCVProcessor.sobel that the last task made
SobelCalls ==
    { c \in Calls : c.target = "OpenCVProcessor" /\ c.op = "sobel" /\ c.err = NoError }

\* the image-processing stages of a call: its native steps without the
\* allocation and release of Mats
IsStage(s) == s.fn \notin {"new Mat", "delete"}
Stages(c) == SelectSeq(c.steps, IsStage)

\* C18: a completed OpenCVProcessor.sobel runs, in this order: grayscale
\* conversion, 3x3 Gaussian blur, the horizontal and the vertical gradient,
\* the absolute value of each, their weighted sum with weights 0.5 and 0.5
\* (not a Euclidean norm), and the replication of the result to RGBA.
C18_SobelStageOrder ==
    \A c \in SobelCalls :
        /\ [i \in 1..Len(Stages(c)) |-> Stages(c)[i].fn] =
              << "matFromImageData", "cvtColor RGBA2GRAY", "GaussianBlur 3x3",
                 "Sobel dx", "Sobel dy", "convertScaleAbs", "convertScaleAbs",
                 "addWeighted 0.5 0.5", "cvtColor GRAY2RGBA", "new ImageData" >>
        /\ [i \in 1..Len(Stages(c)) |-> Stages(c)[i].mat] =
              << "src", "gray", "blurred", "gradX", "gradY", "absGradX",
                 "absGradY", "edges", "result", "result" >>

\* C18 witness: a ready processor completed a call of sobel.
C18_Witness ==
    /\ last.handler = "call" /\ proc.isReady
    /\ \E c \in SobelCalls : Len(c.steps) = Len(sobelSteps)

\* C19: a keydown of S invokes startWebcam when the Start button is enabled
\* and stopWebcam when Start is disabled and Stop enabled; a keydown of C
\* invokes captureScreenshot when the Capture button is enabled and changes
\* nothing when it is disabled.
C19_KeyboardShortcuts ==
    [][/\ (\E fails \in BOOLEAN : keydown("s", fails)) =>
             IF ~ui.startDisabled
             THEN /\ last'.handler = "startWebcam"
                  /\ env'.requests = env.requests + 1
                  /\ state' = state
             ELSE IF ~ui.stopDisabled
             THEN /\ last'.handler = "stopWebcam"
                  /\ ~state'.isProcessing /\ state'.videoStream = "null"
                  /\ ~ui'.startDisabled /\ ui'.stopDisabled
             ELSE UNCHANGED <<state, ui, env>>
       /\ (\E fails \in BOOLEAN : keydown("c", fails)) =>
             IF ~ui.captureDisabled
             THEN /\ last'.handler = "captureScreenshot"
                  /\ ui'.status \in {"Screenshot saved!", "Error"}
             ELSE UNCHANGED <<app, config, state, ui, proc, env>>]_vars

\* C19 witness: S was pressed while the camera was running, and stopped it.
C19_Witness ==
    /\ last.key = "s" /\ last.handler = "stopWebcam"
    /\ ~state.isProcessing /\ ~ui.startDisabled /\ ui.captureDisabled

\* C20: an OpenCVProcessor operation that returns, returns an ImageData with
\* the width and the height of the image it was given.
C20_OutputHasInputDimensions ==
    (last.handler = "call" /\ last.propagated = NoError) =>
        /\ last.output.width = last.input.width
        /\ last.output.height = last.input.height
        /\ last.output # NoImage

\* C20 witness: sobel returned a 2 x 1 image for a 2 x 1 image.
C20_Witness ==
    /\ last.handler = "call" /\ last.propagated = NoError
    /\ \E c \in Calls : c.op = "sobel"
    /\ last.input = [width |-> 2, height |-> 1]
    /\ last.output = [width |-> 2, height |-> 1]

\* the rows the two backends made of the same row match within Tolerance
Matches(a, b) == \A j \in 1..RowLen : abs(a[j] - b[j]) <= Tolerance

\* C21: for Sobel, the same frame under the same config comes out of the
\* accelerated backend and out of the reference backend with every pixel
\* within the tolerance of the other.
C21_BackendsMatch ==
    last.handler = "sobel" => Matches(last.accelerated, last.reference)

\* C22: selectMode('opencv') while ready() is false is rejected: config.mode,
\* the active mode button and the mode status text keep the values they had,
\* and an alert is shown; no call of selectMode made while ready() is false
\* leaves config.mode changed to 'opencv'.
C22_NotReadyOpenCVRejected ==
    [][/\ (~ready(proc) /\ selectMode("opencv")) =>
            /\ config' = config
            /\ ui' = ui
            /\ last'.alert = "OpenCV.js is not loaded yet"
       /\ \A mode \in Modes :
            (~ready(proc) /\ selectMode(mode) /\ config.mode # "opencv") =>
                config'.mode # "opencv"]_vars

\* C22 witness: TypeScript mode had been selected, OpenCV was still loading,
\* and selectMode('opencv') was refused: mode, button and text are unchanged.
C22_Witness ==
    /\ proc.promise = "pending" /\ ~ready(proc)
    /\ last.handler = "selectMode" /\ last.alert = "OpenCV.js is not loaded yet"
    /\ config.mode = "typescript"
    /\ ui.activeMode = "typescript" /\ ui.modeStatus = "Using TypeScript"

\* C23: every call of OpenCVProcessor.canny the driver makes has
\* highThreshold > lowThreshold, whatever value config.threshold has.
C23_CannyHighAboveLow ==
    \A c \in CannyCalls : c.args[2] > c.args[1]

\* the calls of OpenCVProcessor.gaussianBlur that the last task made
CvBlurCalls == { c \in Calls : c.target = "OpenCVProcessor" /\ c.op = "gaussianBlur" }

\* C24: the kernel size of every call of OpenCVProcessor.gaussianBlur the
\* driver makes is 2 * blurAmount + 1 for a blurAmount > 0: odd and at
\* least 3, never even and never 1 or less.
C24_BlurKernelOddAtLeastThree ==
    \A c \in CvBlurCalls :
        /\ config.blurAmount > 0
        /\ c.args = <<2 * config.blurAmount + 1>>
        /\ c.args[1] % 2 = 1
        /\ c.args[1] >= 3

\* C24 witness: a frame blurred by the accelerated backend with kernel size 3
\* for blurAmount 1 was rendered.
C24_Witness ==
    /\ FrameRan /\ last.rendered
    /\ config.blurAmount = 1
    /\ \E c \in CvBlurCalls : c.args = <<3>> /\ c.err = NoError

\* C25: at most one animation-frame callback is pending, and it is the one
\* state.animationId identifies, in every reachable state.
C25_OneFrameLoop ==
    /\ pendingCallbacks <= 1
    /\ env.orphans = 0

\* C26: no stream with running tracks exists other than the one
\* state.videoStream holds, and right after stopWebcam no stream is running.
C26_NoStreamLeak ==
    /\ ~env.leaked
    /\ last.handler = "stopWebcam" => (state.videoStream = "null" /\ ~env.leaked)

\* C27: in every reachable state, config.method = 'grayscale' implies
\* config.mode = 'opencv'.
C27_GrayscaleImpliesOpenCV ==
    config.method = "grayscale" => config.mode = "opencv"

\* C28: whenever the status line reads 'Camera active! Processing in
\* real-time (OpenGL ES 2.0)...', state.isProcessing is true.
C28_ActiveStatusMeansProcessing ==
    ui.status = ActiveStatus => state.isProcessing

\* C29: whenever state.isProcessing is true, Start is disabled and Stop and
\* Capture are enabled; right after every stopWebcam, Start is enabled, Stop
\* and Capture are disabled, isProcessing is false, and animationId and
\* videoStream are null.
C29_ButtonsFollowProcessing ==
    /\ state.isProcessing =>
           (ui.startDisabled /\ ~ui.stopDisabled /\ ~ui.captureDisabled)
    /\ last.handler = "stopWebcam" =>
           /\ ~ui.startDisabled /\ ui.stopDisabled /\ ui.captureDisabled
           /\ ~state.isProcessing
           /\ state.animationId = "null"
           /\ state.videoStream = "null"

\* C29 witness: a click on Stop ended a running camera, on which Capture had
\* been enabled and used less than two seconds before.
C29_Witness ==
    /\ last.handler = "stopWebcam" /\ last.key = ""
    /\ env.timers > 0
    /\ ui.status = "Camera stopped."
    /\ ~state.isProcessing /\ state.animationId = "null"
    /\ ui.captureDisabled /\ ~ui.startDisabled

\* C30: ready() turns true only in the step in which the runtime finishes
\* loading with the onRuntimeInitialized callback of initialize() registered,
\* and once true it is true in every later state.
C30_ReadinessMonotonic ==
    [][/\ ready(proc) => ready(proc')
       /\ (~ready(proc) /\ ready(proc')) =>
              /\ env.handler
              /\ env.runtime = "loading" /\ env'.runtime = "initialized"
              /\ proc.promise = "pending"]_vars

\* C30 witness: the processor became ready, an operation then failed in a
\* native step, and the processor is still ready.
C30_Witness ==
    /\ ready(proc) /\ proc.promise = "resolved"
    /\ last.handler = "call" /\ last.propagated = NativeError

\* C31: the step in which OpenCV initialization completes changes the
\* readiness of the processor and the mode status text and nothing else of
\* the application: config.mode, config.method, config.threshold and
\* config.blurAmount, the buttons, the status line and the camera state keep
\* their values.
C31_InitSuccessKeepsConfig ==
    [][(~ready(proc) /\ ready(proc')) =>
           /\ config' = config
           /\ state' = state
           /\ app' = app
           /\ ui' = [ui EXCEPT !.modeStatus = "OpenCV C++ Ready"]]_vars

\* C31 witness: TypeScript mode and Canny were selected while the library was
\* loading; initialization has just completed and both are still selected.
C31_Witness ==
    /\ last.handler = "environment" /\ ready(proc) /\ proc.promise = "resolved"
    /\ ui.modeStatus = "OpenCV C++ Ready"
    /\ config.mode = "typescript" /\ ui.activeMode = "typescript"
    /\ config.method = "canny"

\* the steps of a call that create Mat m, and those that delete it
CreatedAt(c, m) ==
    { i \in 1..Len(c.steps) :
        c.steps[i].mat = m /\ c.steps[i].fn \in {"matFromImageData", "new Mat"} }
DeletedAt(c, m) ==
    { i \in 1..Len(c.steps) : c.steps[i].mat = m /\ c.steps[i].fn = "delete" }
\* the Mats step i of a call touches: the one it creates, writes, copies out
\* or deletes, and the ones a native function reads
MatsUsed(c, i) ==
    LET s == c.steps[i]
    IN {s.mat} \cup
       (IF s.fn \in {"matFromImageData", "new Mat", "new ImageData", "delete"}
        THEN {}
        ELSE {SourceOf(c.op, s.mat)} \cup
             (IF s.fn = "addWeighted 0.5 0.5" THEN {"absGradY"} ELSE {}))
\* the Mats a call created and has not deleted
LiveMats(c) ==
    { m \in {c.steps[i].mat : i \in 1..Len(c.steps)} :
        CreatedAt(c, m) # {} /\ DeletedAt(c, m) = {} }
\* the calls of OpenCVProcessor that returned normally in the last task
ReturnedCvCalls ==
    { c \in Calls : c.target = "OpenCVProcessor" /\ c.err = NoError }

\* C32: when an OpenCVProcessor operation returns normally, every Mat it
\* touched was created once and deleted once, every use of a Mat lies after
\* its creation and not after its deletion, and no Mat is left alive.
C32_MatsDeletedOnce ==
    \A c \in ReturnedCvCalls :
        /\ LiveMats(c) = {}
        /\ \A i \in 1..Len(c.steps) : \A m \in MatsUsed(c, i) :
              /\ Cardinality(CreatedAt(c, m)) = 1
              /\ Cardinality(DeletedAt(c, m)) = 1
              /\ \A k \in CreatedAt(c, m) : k <= i
              /\ \A k \in DeletedAt(c, m) : i <= k

\* C32 witness: laplacian returned normally after creating and deleting its
\* six Mats.
C32_Witness ==
    /\ last.handler = "call" /\ last.propagated = NoError
    /\ \E c \in ReturnedCvCalls :
          /\ c.op = "laplacian"
          /\ Cardinality({ i \in 1..Len(c.steps) : c.steps[i].fn = "delete" }) = 6

\* C33: a frame that was processed and rendered without an exception counts
\* once: fpsCounter.frameCount grows by one, or, when at least FpsInterval
\* milliseconds have elapsed since lastTime, is set to 0; a frame that threw
\* or was skipped, and every other task, leaves frameCount as it was.
C33_FrameCountedOnce ==
    [][IF last'.frame /\ last'.rendered
       THEN /\ last'.elapsed >= 0
            /\ fpsCounter'.frameCount =
                   IF last'.elapsed >= 1000 THEN 0
                   ELSE fpsCounter.frameCount + 1
       ELSE fpsCounter'.frameCount = fpsCounter.frameCount]_vars

\* C33 witness: two frames have been counted, the second one rendered just
\* before the second was over, so without a reset.
C33_Witness ==
    /\ FrameRan /\ last.rendered
    /\ last.elapsed = 999
    /\ fpsCounter.frameCount = 2

\* C34: stopWebcam raises no error in any state, leaves the camera state
\* cleared and the buttons reset, and a second call right after the first
\* changes nothing.
C34_StopIdempotent ==
    [][last'.handler = "stopWebcam" =>
           /\ last'.propagated = NoError
           /\ state' = [isProcessing |-> FALSE, animationId |-> "null",
                        videoStream |-> "null"]
           /\ ~ui'.startDisabled /\ ui'.stopDisabled /\ ui'.captureDisabled
           /\ ui'.status = "Camera stopped."
           /\ last.handler = "stopWebcam" =>
                  /\ state' = state /\ ui' = ui /\ env' = env
                  /\ config' = config /\ proc' = proc
                  /\ fpsCounter' = fpsCounter
                  /\ last'.calls = << >>]_vars

\* C34 witness: stopWebcam ran with no callback to cancel and no stream to
\* stop (already stopped, or never started), raised nothing and left the
\* stopped state.
C34_Witness ==
    /\ last.handler = "stopWebcam" /\ last.calls = << >>
    /\ last.propagated = NoError
    /\ env.requests = 0 /\ ~env.metadata
    /\ state.videoStream = "null" /\ ui.status = "Camera stopped."

\* C35: when the WebGL renderer cannot be created, the constructor fails
\* before the OpenCV initialization is started and before a listener is
\* registered: from then on there is no processor, no onRuntimeInitialized
\* handler, no camera request, no stream, no frame and no change of the
\* controls or the settings; the DOMContentLoaded handler catches the failure
\* and nothing propagates.
C35_RendererFailureStopsStartup ==
    app = "failed" =>
        /\ proc = NoProcessor
        /\ ~env.handler
        /\ env.requests = 0 /\ ~env.metadata /\ env.timers = 0
        /\ state = InitState
        /\ ui = InitUi
        /\ config = InitConfig
        /\ fpsCounter = InitFps
        /\ ~last.frame
        /\ last.propagated = NoError
        /\ last.handler = "DOMContentLoaded" =>
               last.caught = "Failed to initialize WebGL renderer"

\* C35 witness: the renderer could not be created; later the native runtime
\* finished loading, and found no handler and no processor to make ready.
C35_Witness ==
    /\ app = "failed"
    /\ last.handler = "environment" /\ env.runtime = "initialized"
    /\ proc = NoProcessor /\ ~env.handler

=============================================================================
